---- MODULE Spec2Model ----
(***************************************************************************)
(* anlpy2: the event-flag registry (event_flags.py, class EventFlags) and  *)
(* the analysis loop (analysis_framework.py, class VANLModule).            *)
(*                                                                         *)
(* The registry is the class attribute EventFlags.__dict_of_flags, a       *)
(* Python dict (insertion ordered) from flag name to flag object.  It is   *)
(* modelled as a sequence of records [key, count, isset, accum] in         *)
(* insertion order, with unique keys.  Flag values are Python floats that  *)
(* only ever hold sums of the values written; they are modelled as         *)
(* integers.                                                               *)
(***************************************************************************)
EXTENDS Integers, Sequences, FiniteSets, TLC

VARIABLES
    dict_of_flags,   \* EventFlags.__dict_of_flags
    ret,             \* value returned by the last EventFlags call
    log,             \* direct EventFlags calls: the last one, or those of the record
    pc,              \* position of run_analysis
    nentries,        \* VANLModule.nentries
    print_frequency, \* VANLModule.print_frequency
    routine,         \* the user module: which user_event_routine is installed
    entry,           \* loop variable of run_analysis
    dt,              \* (now - start_time), in clock ticks
    called,          \* indexes user_event_routine was invoked with, in order
    loaded,          \* indexes input_tree.GetEntry was called with, in order
    printed,         \* what _print_progress printed, in order
    hooks,           \* how often user_before_loop / user_after_loop ran
    status,          \* status returned by the last user_event_routine
    helper,          \* helper method the last user_event_routine returned through
    pending,         \* flag values held when accumulate was last called in the record
    ops,             \* EventFlags calls made by the user hooks in this run
    reports,         \* the tables evs.output() printed in this run
    runs             \* number of VANLModule objects constructed in this process

vars == <<dict_of_flags, ret, log, pc, nentries, print_frequency, routine,
          entry, dt, called, loaded, printed, hooks, status, helper,
          pending, ops, reports, runs>>

regvars == <<dict_of_flags, ret, log>>

runvars == <<pc, nentries, print_frequency, routine, entry, dt, called,
             loaded, printed, hooks, status, helper, pending, ops, reports,
             runs>>

----------------------------------------------------------------------------
(* Bounds of the model *)

MaxVal == 2
MaxCalls == 2
MaxCount == 3
MaxTotal == 3
MaxEntries == 3
MaxFreq == 2
MaxDt == 1
MaxOps == 2
MaxRuns == 2

Keys == {"hit", "miss"}
Vals == 1..MaxVal

(* whether the clock advanced between two readings of datetime.now() *)
Ticks == {0, 1}

----------------------------------------------------------------------------
(* AnalysisStatus *)

OKEvent == "OKEvent"
SkipEvent == "SkipEvent"
QuitLoop == "QuitLoop"
OKFunc == "OKFunc"
ErrFunc == "ErrFunc"

(* Python return values: None, a bool, a float, or an EventFlags object    *)
(* (of which only its key is modelled)                                     *)
RetNone == [kind |-> "None", b |-> FALSE, val |-> 0, key |-> ""]
RetBool(b) == [kind |-> "bool", b |-> b, val |-> 0, key |-> ""]
RetFloat(v) == [kind |-> "float", b |-> FALSE, val |-> v, key |-> ""]
RetFlag(key) == [kind |-> "EventFlags", b |-> FALSE, val |-> 0, key |-> key]

----------------------------------------------------------------------------
(* EventFlags *)

ndef(d) == Len(d)

has(d, key) == \E i \in 1..Len(d) : d[i].key = key

At(d, key) == d[CHOOSE i \in 1..Len(d) : d[i].key = key]

RECURSIVE newkey_from(_, _, _)
newkey_from(d, key, iter) ==
    LET candidate == key \o "-" \o ToString(iter)
    IN  IF has(d, candidate) = FALSE THEN candidate
        ELSE newkey_from(d, key, iter + 1)

newkey(d, key) == newkey_from(d, key, 2)

EventFlagsInit(d, key) ==
    [key   |-> IF has(d, key) THEN newkey(d, key) ELSE key,
     count |-> 0,
     isset |-> FALSE,
     accum |-> 0]

(* define that puts a new flag object under a name already registered *)
define_overwrites(d, key) ==
    IF has(d, key) = TRUE
    THEN [i \in 1..Len(d) |->
            IF d[i].key = key
            THEN [key |-> key, count |-> 0, isset |-> FALSE, accum |-> 0]
            ELSE d[i]]
    ELSE Append(d, EventFlagsInit(d, key))

define(d, key) ==
    IF has(d, key) = TRUE THEN d
    ELSE Append(d, EventFlagsInit(d, key))

(* set that adds to the value it finds *)
set_adds(d, key, val) ==
    IF has(d, key) = FALSE THEN d
    ELSE [i \in 1..Len(d) |->
            IF d[i].key = key
            THEN [d[i] EXCEPT !.count = d[i].count + val, !.isset = TRUE]
            ELSE d[i]]

(* set that defines a missing flag first *)
set_defines(d, key, val) ==
    LET e == define(d, key)
    IN  [i \in 1..Len(e) |->
            IF e[i].key = key
            THEN [e[i] EXCEPT !.count = val, !.isset = TRUE]
            ELSE e[i]]

set(d, key, val) ==
    IF has(d, key) = FALSE THEN d
    ELSE [i \in 1..Len(d) |->
            IF d[i].key = key
            THEN [d[i] EXCEPT !.count = val, !.isset = TRUE]
            ELSE d[i]]

set_ret(d, key, val) ==
    IF has(d, key) = FALSE THEN RetBool(FALSE) ELSE RetNone

add(d, key, val) ==
    IF has(d, key) = FALSE THEN d
    ELSE [i \in 1..Len(d) |->
            IF d[i].key = key
            THEN [d[i] EXCEPT !.count = d[i].count + val, !.isset = TRUE]
            ELSE d[i]]

add_ret(d, key, val) ==
    IF has(d, key) = FALSE THEN RetBool(FALSE) ELSE RetNone

is_set(d, key) ==
    IF has(d, key) = FALSE THEN FALSE ELSE At(d, key).isset

any(d, list_of_keys) ==
    \E i \in 1..Len(list_of_keys) : is_set(d, list_of_keys[i])

all(d, list_of_keys) ==
    \A i \in 1..Len(list_of_keys) : is_set(d, list_of_keys[i])

get(d, key) ==
    IF has(d, key) = FALSE THEN RetNone ELSE RetFloat(At(d, key).count)

integral(d, key) ==
    IF has(d, key) = FALSE THEN RetNone ELSE RetFloat(At(d, key).accum)

(* when that defines only the flag it sets *)
when_defines_one(d, condition, set_flag, otherwise_set_flag) ==
    IF condition = TRUE THEN set(define(d, set_flag), set_flag, 1)
    ELSE set(define(d, otherwise_set_flag), otherwise_set_flag, 1)

(* when that also takes the other flag back *)
when_clears_other(d, condition, set_flag, otherwise_set_flag) ==
    LET e == define(define(d, set_flag), otherwise_set_flag)
        chosen == IF condition = TRUE THEN set_flag ELSE otherwise_set_flag
    IN  [i \in 1..Len(e) |->
            IF e[i].key = chosen
            THEN [e[i] EXCEPT !.count = 1, !.isset = TRUE]
            ELSE IF e[i].key \in {set_flag, otherwise_set_flag}
                 THEN [e[i] EXCEPT !.count = 0, !.isset = FALSE]
                 ELSE e[i]]

when(d, condition, set_flag, otherwise_set_flag) ==
    LET d1 == IF has(d, set_flag) = FALSE THEN define(d, set_flag) ELSE d
        d2 == IF has(d1, otherwise_set_flag) = FALSE
              THEN define(d1, otherwise_set_flag) ELSE d1
    IN  IF condition = TRUE THEN set(d2, set_flag, 1)
        ELSE set(d2, otherwise_set_flag, 1)

(* accumulate that stores the value instead of adding it *)
accumulate_overwrites(d) ==
    [i \in 1..Len(d) |->
        [d[i] EXCEPT !.accum = d[i].count, !.count = 0, !.isset = FALSE]]

(* accumulate that leaves the values *)
accumulate_keeps_count(d) ==
    [i \in 1..Len(d) |-> [d[i] EXCEPT !.accum = d[i].accum + d[i].count]]

accumulate(d) ==
    [i \in 1..Len(d) |->
        [d[i] EXCEPT !.accum = d[i].accum + d[i].count,
                     !.count = 0,
                     !.isset = FALSE]]

(* clear that also zeroes the totals *)
clear_totals(d) ==
    [i \in 1..Len(d) |->
        [d[i] EXCEPT !.accum = 0, !.count = 0, !.isset = FALSE]]

(* clear that leaves the values *)
clear_isset_only(d) ==
    [i \in 1..Len(d) |-> [d[i] EXCEPT !.isset = FALSE]]

clear(d) ==
    [i \in 1..Len(d) |-> [d[i] EXCEPT !.count = 0, !.isset = FALSE]]

(* reset that empties the registry *)
reset_forgets(d) == <<>>

reset(d) ==
    [i \in 1..Len(d) |->
        [d[i] EXCEPT !.accum = 0, !.count = 0, !.isset = FALSE]]

Counts(d) == [i \in 1..Len(d) |-> [key |-> d[i].key, count |-> d[i].count]]

output(d) ==
    [i \in 1..Len(d) |-> [key |-> d[i].key, accum |-> d[i].accum]]

----------------------------------------------------------------------------
(* Direct calls of the EventFlags class methods, as in the self-test under *)
(* __main__ of event_flags.py.  log holds the last call made.              *)

Call(op, key, keys, val, cond) ==
    [op |-> op, key |-> key, keys |-> keys, val |-> val, cond |-> cond]

KeyLists == {<<>>} \cup {<<k>> : k \in Keys} \cup {<<k, l>> : k, l \in Keys}

(* temp = EventFlags( key ), called by user code: the constructor picks    *)
(* the key of the new object and registers nothing                         *)
Construct(key) ==
    /\ pc = "idle"
    /\ ret' = RetFlag(EventFlagsInit(dict_of_flags, key).key)
    /\ log' = <<Call("EventFlags", key, <<>>, 0, FALSE)>>
    /\ UNCHANGED <<dict_of_flags, runvars>>

Define(key) ==
    /\ pc = "idle"
    /\ dict_of_flags' = define(dict_of_flags, key)
    /\ ret' = RetNone
    /\ log' = <<Call("define", key, <<>>, 0, FALSE)>>
    /\ UNCHANGED runvars

Set(key, val) ==
    /\ pc = "idle"
    /\ dict_of_flags' = set(dict_of_flags, key, val)
    /\ ret' = set_ret(dict_of_flags, key, val)
    /\ log' = <<Call("set", key, <<>>, val, FALSE)>>
    /\ UNCHANGED runvars

Add(key, val) ==
    /\ pc = "idle"
    /\ has(dict_of_flags, key) => At(dict_of_flags, key).count + val <= MaxCount
    /\ dict_of_flags' = add(dict_of_flags, key, val)
    /\ ret' = add_ret(dict_of_flags, key, val)
    /\ log' = <<Call("add", key, <<>>, val, FALSE)>>
    /\ UNCHANGED runvars

IsSet(key) ==
    /\ pc = "idle"
    /\ ret' = RetBool(is_set(dict_of_flags, key))
    /\ log' = <<Call("is_set", key, <<>>, 0, FALSE)>>
    /\ UNCHANGED <<dict_of_flags, runvars>>

AnyOf(list_of_keys) ==
    /\ pc = "idle"
    /\ ret' = RetBool(any(dict_of_flags, list_of_keys))
    /\ log' = <<Call("any", "", list_of_keys, 0, FALSE)>>
    /\ UNCHANGED <<dict_of_flags, runvars>>

AllOf(list_of_keys) ==
    /\ pc = "idle"
    /\ ret' = RetBool(all(dict_of_flags, list_of_keys))
    /\ log' = <<Call("all", "", list_of_keys, 0, FALSE)>>
    /\ UNCHANGED <<dict_of_flags, runvars>>

Get(key) ==
    /\ pc = "idle"
    /\ ret' = get(dict_of_flags, key)
    /\ log' = <<Call("get", key, <<>>, 0, FALSE)>>
    /\ UNCHANGED <<dict_of_flags, runvars>>

Integral(key) ==
    /\ pc = "idle"
    /\ ret' = integral(dict_of_flags, key)
    /\ log' = <<Call("integral", key, <<>>, 0, FALSE)>>
    /\ UNCHANGED <<dict_of_flags, runvars>>

When(condition, set_flag, otherwise_set_flag) ==
    /\ pc = "idle"
    /\ dict_of_flags' = when(dict_of_flags, condition, set_flag, otherwise_set_flag)
    /\ ret' = RetBool(condition)
    /\ log' = <<Call("when", "", <<set_flag, otherwise_set_flag>>, 0, condition)>>
    /\ UNCHANGED runvars

Accumulate ==
    /\ pc = "idle"
    /\ \A i \in 1..Len(dict_of_flags) :
          dict_of_flags[i].accum + dict_of_flags[i].count <= MaxTotal
    /\ dict_of_flags' = accumulate(dict_of_flags)
    /\ ret' = RetNone
    /\ log' = <<Call("accumulate", "", <<>>, 0, FALSE)>>
    /\ UNCHANGED runvars

Clear ==
    /\ pc = "idle"
    /\ dict_of_flags' = clear(dict_of_flags)
    /\ ret' = RetNone
    /\ log' = <<Call("clear", "", <<>>, 0, FALSE)>>
    /\ UNCHANGED runvars

Reset ==
    /\ pc = "idle"
    /\ dict_of_flags' = reset(dict_of_flags)
    /\ ret' = RetNone
    /\ log' = <<Call("reset", "", <<>>, 0, FALSE)>>
    /\ UNCHANGED runvars

(* The calls that write a flag, made one after the other within one        *)
(* record; log holds all of them since the last clear                      *)
Writes ==
    {Call("define", key, <<>>, 0, FALSE) : key \in Keys}
        \cup {Call(op, key, <<>>, val, FALSE) :
                op \in {"set", "add"}, key \in Keys, val \in Vals}
        \cup {Call("when", "", <<key, other>>, 0, cond) :
                key \in Keys, other \in Keys, cond \in BOOLEAN}

Apply(d, c) ==
    CASE c.op = "define" -> define(d, c.key)
      [] c.op = "set" -> set(d, c.key, c.val)
      [] c.op = "add" -> add(d, c.key, c.val)
      [] c.op = "when" -> when(d, c.cond, c.keys[1], c.keys[2])

Returned(d, c) ==
    CASE c.op = "define" -> RetNone
      [] c.op = "set" -> set_ret(d, c.key, c.val)
      [] c.op = "add" -> add_ret(d, c.key, c.val)
      [] c.op = "when" -> RetBool(c.cond)

Write(c) ==
    /\ pc = "idle"
    /\ Len(log) < MaxCalls
    /\ dict_of_flags' = Apply(dict_of_flags, c)
    /\ ret' = Returned(dict_of_flags, c)
    /\ log' = Append(log, c)
    /\ UNCHANGED runvars

NextRecord ==
    /\ pc = "idle"
    /\ log /= <<>>
    /\ dict_of_flags' = clear(dict_of_flags)
    /\ ret' = RetNone
    /\ log' = <<>>
    /\ pending' = <<>>
    /\ UNCHANGED <<pc, nentries, print_frequency, routine, entry, dt, called,
                   loaded, printed, hooks, status, helper, ops, reports, runs>>

(* accumulate called directly within one record, once or more often, as   *)
(* user code does that calls evs.accumulate() itself                       *)
CloseRecord ==
    /\ pc = "idle"
    /\ Len(log) <= MaxCalls
    /\ \A i \in 1..Len(dict_of_flags) :
          dict_of_flags[i].accum + dict_of_flags[i].count <= MaxTotal
    /\ dict_of_flags' = accumulate(dict_of_flags)
    /\ ret' = RetNone
    /\ log' = Append(log, Call("accumulate", "", <<>>, 0, FALSE))
    /\ pending' = Counts(dict_of_flags)
    /\ UNCHANGED <<pc, nentries, print_frequency, routine, entry, dt, called,
                   loaded, printed, hooks, status, helper, ops, reports, runs>>

----------------------------------------------------------------------------
(* VANLModule *)

(* The user module.  "hitmiss" is a user_event_routine that calls          *)
(* when(current_entry == k, "hit", "miss") and returns self.ok_event(),    *)
(* or self.quit_loop() when current_entry == quit (quit = MaxEntries: it   *)
(* never quits), or self.skip_event() on the entries in skip; "free" is    *)
(* user code that makes any EventFlags calls in its three hooks and        *)
(* returns any status, through a helper method or as a bare value.         *)
Routines ==
    {[kind |-> "hitmiss", k |-> k, quit |-> q, skip |-> s] :
        k \in 0..(MaxEntries - 1), q \in 0..MaxEntries,
        s \in SUBSET (0..(MaxEntries - 1))}
        \cup {[kind |-> "free", k |-> 0, quit |-> 0, skip |-> {}]}

(* how often each hook ran, and what user_before_loop returned *)
NoHooks == [before |-> 0, after |-> 0, setup |-> "none"]

(* an entry list with one entry too many *)
entry_list_inclusive == 0..nentries

(* entry_list = range( self.nentries ) *)
entry_list == 0..(nentries - 1)

(* _print_progress(current_entry), with tick the number of clock ticks the *)
(* clock advanced until datetime.now() is read.  elapsed is                *)
(* (now - start_time).  The result says whether ZeroDivisionError was      *)
(* raised, the new elapsed time, and what was printed.  rest_time is the   *)
(* fraction rest_num / rest_den.                                           *)
Line(current_entry, num, den) ==
    [kind |-> "line", entry |-> current_entry, rest_num |-> num, rest_den |-> den]

Newline(current_entry) ==
    [kind |-> "newline", entry |-> current_entry, rest_num |-> 0, rest_den |-> 1]

print_progress(current_entry, elapsed, tick) ==
    LET started == IF current_entry = 0 THEN 0 ELSE elapsed
        now_dt == IF started + tick > MaxDt THEN MaxDt ELSE started + tick
        rest_entries == nentries - current_entry
        line == IF current_entry /= 0
                THEN Line(current_entry, rest_entries * now_dt, current_entry)
                ELSE Line(current_entry, 0, 1)
        last == IF current_entry = nentries - 1
                THEN <<Newline(current_entry)>> ELSE <<>>
    IN  IF current_entry % print_frequency = 0
        THEN IF now_dt = 0
             THEN [raised |-> TRUE, dt |-> now_dt, out |-> <<>>]
             ELSE [raised |-> FALSE, dt |-> now_dt, out |-> <<line>> \o last]
        ELSE [raised |-> FALSE, dt |-> started, out |-> last]

(* a hook status that is never taken as a failure *)
Failed_never(st) == FALSE

(* if self.user_before_loop() != stt.OKFunc, and the same test on          *)
(* user_after_loop                                                         *)
Failed(st) == st /= OKFunc

(* run_analysis that starts from a registry it has reset *)
RunAnalysis_resets ==
    /\ pc = "idle"
    /\ pc' = "before"
    /\ hooks' = [hooks EXCEPT !.before = @ + 1]
    /\ dict_of_flags' = reset(dict_of_flags)
    /\ UNCHANGED <<ret, log, nentries, print_frequency, routine, entry, dt,
                   called, loaded, printed, status, helper, pending, ops,
                   reports, runs>>

(* run_analysis up to the call of user_before_loop *)
RunAnalysis ==
    /\ pc = "idle"
    /\ pc' = "before"
    /\ hooks' = [hooks EXCEPT !.before = @ + 1]
    /\ UNCHANGED <<regvars, nentries, print_frequency, routine, entry, dt,
                   called, loaded, printed, status, helper, pending, ops,
                   reports, runs>>

(* an EventFlags call made by the user's code inside one of the hooks *)
UserCall(c) ==
    /\ pc \in {"before", "event", "after"}
    /\ routine.kind = "free"
    /\ ops < MaxOps
    /\ ops' = ops + 1
    /\ dict_of_flags' = Apply(dict_of_flags, c)
    /\ ret' = Returned(dict_of_flags, c)
    /\ UNCHANGED <<log, pc, nentries, print_frequency, routine, entry, dt,
                   called, loaded, printed, hooks, status, helper, pending,
                   reports, runs>>

(* user_before_loop returns st; run_analysis returns ErrFunc at once, or   *)
(* builds the entry list and starts the loop                               *)
BeforeReturn(st) ==
    /\ pc = "before"
    /\ hooks' = [hooks EXCEPT !.setup = st]
    /\ IF Failed(st)
       THEN /\ pc' = "error"
            /\ UNCHANGED entry
       ELSE /\ pc' = "loop"
            /\ entry' = 0
    /\ UNCHANGED <<regvars, nentries, print_frequency, routine, dt, called,
                   loaded, printed, status, helper, pending, ops, reports,
                   runs>>

(* one iteration of the for loop up to the call of user_event_routine:     *)
(* evs.clear(), then _run_loop: _print_progress, GetEntry                  *)
NextEntry(tick) ==
    /\ pc = "loop"
    /\ entry \in entry_list
    /\ LET p == print_progress(entry, dt, tick)
       IN  /\ dict_of_flags' = clear(dict_of_flags)
           /\ dt' = p.dt
           /\ printed' = printed \o p.out
           /\ IF p.raised
              THEN /\ pc' = "crashed"
                   /\ UNCHANGED <<loaded, called>>
              ELSE /\ pc' = "event"
                   /\ loaded' = Append(loaded, entry)
                   /\ called' = Append(called, entry)
    /\ UNCHANGED <<ret, log, nentries, print_frequency, routine, entry, hooks,
                   status, helper, pending, ops, reports, runs>>

(* the entry list is exhausted: user_after_loop is called *)
LoopEnd ==
    /\ pc = "loop"
    /\ entry \notin entry_list
    /\ pc' = "after"
    /\ hooks' = [hooks EXCEPT !.after = @ + 1]
    /\ UNCHANGED <<regvars, nentries, print_frequency, routine, entry, dt,
                   called, loaded, printed, status, helper, pending, ops,
                   reports, runs>>

(* the status a helper method returns *)
StatusOf(via) ==
    CASE via = "ok_event" -> OKEvent
      [] via = "skip_event" -> SkipEvent
      [] via = "quit_loop" -> QuitLoop

(* accumulate whatever the routine returned through *)
Helped_always(via, d) == accumulate(d)

(* only ok_event accumulates *)
Helped_ok_only(via, d) == IF via = "ok_event" THEN accumulate(d) ELSE d

(* what a helper method does to the registry: evs.accumulate() *)
Helped(via, d) == IF via /= "none" THEN accumulate(d) ELSE d

(* a loop that never breaks *)
Breaks_never(st) == FALSE

(* a loop that goes on only after OKEvent *)
Breaks_on_skip(st) == st /= OKEvent

(* if self._run_loop(entry) == stt.QuitLoop : break *)
Breaks(st) == st = QuitLoop

(* user_event_routine reaches its return statement with the registry d and *)
(* returns st, through the helper method via (ok_event, skip_event,        *)
(* quit_loop) or as a bare value (via = "none"); run_analysis breaks on    *)
(* QuitLoop and calls user_after_loop, and goes on to the next entry       *)
(* otherwise                                                               *)
Returns(d, via, st, tick) ==
    /\ via /= "none" => st = StatusOf(via)
    /\ via /= "quit_loop" => tick = 0
    /\ LET p == IF via = "quit_loop"
                THEN print_progress(nentries - 1, dt, tick)
                ELSE [raised |-> FALSE, dt |-> dt, out |-> <<>>]
       IN  /\ dict_of_flags' = Helped(via, d)
           /\ dt' = p.dt
           /\ printed' = printed \o p.out
           /\ helper' = via
           /\ pending' = Counts(d)
           /\ IF p.raised
              THEN /\ pc' = "crashed"
                   /\ UNCHANGED <<status, entry, hooks>>
              ELSE /\ status' = st
                   /\ IF Breaks(st)
                      THEN /\ pc' = "after"
                           /\ hooks' = [hooks EXCEPT !.after = @ + 1]
                           /\ UNCHANGED entry
                      ELSE /\ pc' = "loop"
                           /\ entry' = entry + 1
                           /\ UNCHANGED hooks
    /\ UNCHANGED <<log, nentries, print_frequency, routine, called, loaded,
                   ops, reports, runs>>

(* user_event_routine of the "hitmiss" module *)
HitMissRoutine(tick) ==
    /\ pc = "event"
    /\ routine.kind = "hitmiss"
    /\ ret' = RetBool(entry = routine.k)
    /\ LET via == IF entry = routine.quit THEN "quit_loop"
                  ELSE IF entry \in routine.skip THEN "skip_event"
                  ELSE "ok_event"
       IN  Returns(when(dict_of_flags, entry = routine.k, "hit", "miss"),
                   via, StatusOf(via), tick)

(* user_event_routine of the "free" module returns *)
EventReturn(via, st, tick) ==
    /\ pc = "event"
    /\ routine.kind = "free"
    /\ UNCHANGED ret
    /\ Returns(dict_of_flags, via, st, tick)

(* user_after_loop returns st; run_analysis returns ErrFunc at once, or    *)
(* calls evs.output() and returns                                          *)
AfterReturn(st) ==
    /\ pc = "after"
    /\ IF Failed(st)
       THEN /\ pc' = "error"
            /\ UNCHANGED reports
       ELSE /\ pc' = "done"
            /\ reports' = Append(reports, output(dict_of_flags))
    /\ UNCHANGED <<regvars, nentries, print_frequency, routine, entry, dt,
                   called, loaded, printed, hooks, status, helper, pending,
                   ops, runs>>

(* VANLModule.__init__: another module object is constructed in the same   *)
(* process once a run has ended; EventFlags is shared by all of them       *)
NewModule(n, freq, r) ==
    /\ pc \in {"done", "error", "crashed"}
    /\ runs < MaxRuns
    /\ runs' = runs + 1
    /\ pc' = "idle"
    /\ nentries' = n
    /\ print_frequency' = freq
    /\ routine' = r
    /\ entry' = 0
    /\ dt' = 0
    /\ called' = <<>>
    /\ loaded' = <<>>
    /\ printed' = <<>>
    /\ hooks' = NoHooks
    /\ status' = "none"
    /\ helper' = "none"
    /\ pending' = <<>>
    /\ ops' = 0
    /\ reports' = <<>>
    /\ UNCHANGED regvars

----------------------------------------------------------------------------
(* Specifications *)

Init ==
    /\ dict_of_flags = <<>>
    /\ ret = RetNone
    /\ log = <<>>
    /\ pc = "idle"
    /\ nentries \in 0..MaxEntries
    /\ print_frequency \in 1..MaxFreq
    /\ routine \in Routines
    /\ entry = 0
    /\ dt = 0
    /\ called = <<>>
    /\ loaded = <<>>
    /\ printed = <<>>
    /\ hooks = NoHooks
    /\ status = "none"
    /\ helper = "none"
    /\ pending = <<>>
    /\ ops = 0
    /\ reports = <<>>
    /\ runs = 1

Next ==
    \/ RunAnalysis
    \/ \E c \in Writes : UserCall(c)
    \/ \E st \in {OKFunc, ErrFunc} : BeforeReturn(st)
    \/ \E tick \in Ticks : NextEntry(tick)
    \/ LoopEnd
    \/ \E tick \in Ticks : HitMissRoutine(tick)
    \/ \E via \in {"ok_event", "skip_event", "quit_loop", "none"},
          st \in {OKEvent, SkipEvent, QuitLoop}, tick \in Ticks :
          EventReturn(via, st, tick)
    \/ \E st \in {OKFunc, ErrFunc} : AfterReturn(st)

Spec == Init /\ [][Next]_vars

(* The registry alone: the class methods called directly, in any order *)
InitReg ==
    /\ Init
    /\ nentries = 0
    /\ print_frequency = 1
    /\ routine = [kind |-> "free", k |-> 0, quit |-> 0, skip |-> {}]

NextReg ==
    \/ \E key \in Keys : Construct(key)
    \/ \E key \in Keys : Define(key)
    \/ \E key \in Keys, val \in Vals : Set(key, val)
    \/ \E key \in Keys, val \in Vals : Add(key, val)
    \/ \E key \in Keys : IsSet(key)
    \/ \E list_of_keys \in KeyLists : AnyOf(list_of_keys)
    \/ \E list_of_keys \in KeyLists : AllOf(list_of_keys)
    \/ \E key \in Keys : Get(key)
    \/ \E key \in Keys : Integral(key)
    \/ \E condition \in BOOLEAN, set_flag \in Keys, otherwise_set_flag \in Keys :
          When(condition, set_flag, otherwise_set_flag)
    \/ Accumulate
    \/ Clear
    \/ Reset

SpecReg == InitReg /\ [][NextReg]_vars

(* the "hitmiss" modules that return through ok_event or quit_loop *)
HitMissRoutines == {r \in Routines : r.kind = "hitmiss" /\ r.skip = {}}

(* Runs of "hitmiss" modules one after the other in one process, all with  *)
(* the same print_frequency, and EventFlags.reset() called by the script   *)
(* between them                                                            *)
InitRuns ==
    /\ Init
    /\ routine \in HitMissRoutines

NextRuns ==
    \/ Reset
    \/ RunAnalysis
    \/ \E st \in {OKFunc, ErrFunc} : BeforeReturn(st)
    \/ \E tick \in Ticks : NextEntry(tick)
    \/ LoopEnd
    \/ \E tick \in Ticks : HitMissRoutine(tick)
    \/ \E st \in {OKFunc, ErrFunc} : AfterReturn(st)
    \/ \E n \in 0..MaxEntries, r \in HitMissRoutines :
          NewModule(n, print_frequency, r)

SpecRuns == InitRuns /\ [][NextRuns]_vars

(* One record after the other: the writing calls, then clear *)
NextRec ==
    \/ \E c \in Writes : Write(c)
    \/ NextRecord

SpecRec == InitReg /\ [][NextRec]_vars

(* Records that are closed by direct calls of accumulate *)
NextAcc ==
    \/ \E c \in Writes : Write(c)
    \/ CloseRecord
    \/ NextRecord

SpecAcc == InitReg /\ [][NextAcc]_vars

----------------------------------------------------------------------------
(* Properties *)

Total(report, key) ==
    IF \E i \in 1..Len(report) : report[i].key = key
    THEN (report[CHOOSE i \in 1..Len(report) : report[i].key = key]).accum
    ELSE -1

LastReport == reports[Len(reports)]

HitMissDone ==
    /\ pc = "done"
    /\ routine.kind = "hitmiss"
    /\ hooks.setup = OKFunc
    /\ nentries >= 1

(* C1: a run of N >= 1 records whose setup succeeds and whose callback     *)
(* calls when(index == k, "hit", "miss") on every record, k in [0, N), and *)
(* returns the Ok outcome (self.ok_event()) ends with a report showing     *)
(* hit: 1 and miss: N - 1.                                                 *)
C1_HitMissReport ==
    (HitMissDone /\ routine.k < nentries /\ routine.quit >= nentries)
        => /\ Len(reports) = 1
           /\ Total(LastReport, "hit") = 1
           /\ Total(LastReport, "miss") = nentries - 1

C1_Witness ==
    /\ HitMissDone
    /\ routine.skip = {}
    /\ nentries >= 3
    /\ routine.k = 1
    /\ routine.quit >= nentries
    /\ Total(LastReport, "hit") = 1
    /\ Total(LastReport, "miss") = nentries - 1

Ascending(indexes) == \A i \in 1..Len(indexes) : indexes[i] = i - 1

Hits(a) == IF routine.k <= a THEN 1 ELSE 0

(* C2: user_event_routine is invoked with 0, 1, 2, ... in ascending order  *)
(* without gaps or repeats; once it has returned QuitLoop at index a,      *)
(* exactly a + 1 records were processed, the loop is left for good, and    *)
(* the report shows the totals of those a + 1 records only.                *)
C2_OrderAndAbort ==
    /\ Ascending(called)
    /\ Ascending(loaded)
    /\ status = QuitLoop
        => /\ Len(called) = entry + 1
           /\ entry < nentries
           /\ pc \in {"after", "done", "error"}
    /\ (HitMissDone /\ status = QuitLoop)
        => /\ entry = routine.quit
           /\ Total(LastReport, "hit") = Hits(entry)
           /\ Total(LastReport, "miss") = (entry + 1) - Hits(entry)

C2_Witness ==
    /\ HitMissDone
    /\ status = QuitLoop
    /\ nentries = 3
    /\ entry = 1
    /\ called = <<0, 1>>
    /\ Total(LastReport, "hit") + Total(LastReport, "miss") = 2

(* C3: every run that has ended, in Done or in Error, has printed the      *)
(* final flag report.                                                      *)
C3_ReportOnEveryEnd ==
    pc \in {"done", "error"} => Len(reports) >= 1

Accums(d) == [i \in 1..Len(d) |-> d[i].accum]

(* C4: when user_before_loop reports failure the run ends in Error with no *)
(* user_event_routine call, no GetEntry, no progress line, no              *)
(* user_after_loop call and every accumulated total still 0.               *)
C4_SetupFailure ==
    hooks.setup = ErrFunc
        => /\ pc = "error"
           /\ called = <<>>
           /\ loaded = <<>>
           /\ printed = <<>>
           /\ hooks.after = 0
           /\ \A i \in 1..Len(dict_of_flags) : dict_of_flags[i].accum = 0

C4_Witness ==
    /\ hooks.setup = ErrFunc
    /\ pc = "error"
    /\ nentries >= 1
    /\ \E i \in 1..Len(dict_of_flags) : dict_of_flags[i].count > 0

AllClear(d) == \A i \in 1..Len(d) : d[i].count = 0 /\ d[i].isset = FALSE

(* C5: whenever user_event_routine is invoked, every registered flag has   *)
(* count 0 and is not set, and the clear that preceded the invocation left *)
(* every accumulated total as it was.                                      *)
C5_NoLeak ==
    [][(pc = "loop" /\ pc' = "event")
        => /\ AllClear(dict_of_flags')
           /\ Accums(dict_of_flags') = Accums(dict_of_flags)]_vars

C5_Witness ==
    /\ pc = "event"
    /\ entry >= 1
    /\ helper = "none"
    /\ \E i \in 1..Len(pending) : pending[i].count > 0
    /\ dict_of_flags /= <<>>
    /\ AllClear(dict_of_flags)

(* a step in which user_event_routine returns to run_analysis *)
RecordCloses == pc = "event" /\ pc' \in {"loop", "after"}

AccumOf(d, key) == IF has(d, key) THEN At(d, key).accum ELSE 0

(* registry e holds the totals of registry d plus the values p *)
Added(d, p, e) ==
    /\ Len(e) = Len(p)
    /\ \A i \in 1..Len(e) :
          /\ p[i].key = e[i].key
          /\ e[i].accum = AccumOf(d, e[i].key) + p[i].count

(* registry e holds the totals of registry d *)
SameTotals(d, e) ==
    \A i \in 1..Len(e) : e[i].accum = AccumOf(d, e[i].key)

(* C6 as stated: for every processed record, whatever status              *)
(* user_event_routine returns and however it produced it, each flag's      *)
(* value is added to its accumulated total before the next record starts.  *)
C6_LoopAccumulates ==
    [][RecordCloses => Added(dict_of_flags, pending', dict_of_flags')]_vars

(* C6 as amended: the values are added exactly when user_event_routine     *)
(* returns through ok_event, skip_event or quit_loop, which call           *)
(* accumulate; run_analysis itself never does, so after a bare status      *)
(* value the totals are as before and the next clear drops the values.     *)
C6_HelperAccumulates ==
    [][/\ RecordCloses
          => IF helper' = "none"
             THEN SameTotals(dict_of_flags, dict_of_flags')
             ELSE Added(dict_of_flags, pending', dict_of_flags')
       /\ pc = "loop" => Accums(dict_of_flags') = Accums(dict_of_flags)]_vars

C6_Witness ==
    /\ pc = "event"
    /\ entry >= 1
    /\ helper = "none"
    /\ status = OKEvent
    /\ \E i \in 1..Len(pending) :
          /\ pending[i].count > 0
          /\ dict_of_flags[i].accum = 0
          /\ dict_of_flags[i].count = 0

(* C7: ok_event, skip_event and quit_loop each close the record out: when  *)
(* user_event_routine has gone through one of them, every flag's total has *)
(* grown by the value it held and the flag is cleared.                     *)
C7_HelpersCloseOut ==
    [][(pc = "event" /\ pc' /= "event" /\ helper' \in {"ok_event", "skip_event", "quit_loop"})
        => /\ Added(dict_of_flags, pending', dict_of_flags')
           /\ AllClear(dict_of_flags')]_vars

C7_Witness ==
    /\ pc = "loop"
    /\ helper = "skip_event"
    /\ status = SkipEvent
    /\ \E i \in 1..Len(pending) :
          /\ pending[i].count > 1
          /\ dict_of_flags[i].accum = pending[i].count
          /\ dict_of_flags[i].count = 0

(* C8: with nentries = 0 and a successful user_before_loop the run goes    *)
(* from the loop straight to user_after_loop and the report: no            *)
(* user_event_routine call, no GetEntry, nothing printed by                *)
(* _print_progress and no exception from it.                               *)
C8_NoRecords ==
    /\ [](nentries = 0
            => /\ called = <<>>
               /\ loaded = <<>>
               /\ printed = <<>>
               /\ pc /= "crashed"
               /\ pc /= "event"
               /\ pc = "done" => (hooks.after = 1 /\ Len(reports) = 1))
    /\ [][(nentries = 0 /\ pc = "loop") => pc' = "after"]_vars

C8_Witness ==
    /\ nentries = 0
    /\ hooks.setup = OKFunc
    /\ pc = "done"
    /\ hooks.after = 1
    /\ Len(reports) = 1

(* call c writes the flag key *)
Touches(c, key) ==
    \/ c.op \in {"set", "add"} /\ c.key = key
    \/ c.op = "when" /\ key \in {c.keys[1], c.keys[2]}

(* C9: within one record, set(name, v) followed by set(name, w) on a       *)
(* defined flag leaves count = w, and add(name, v) followed by             *)
(* add(name, w), the first writes of the record to that flag, leaves       *)
(* count = v + w; the flag is set in both cases.                           *)
C9_SetOverwritesAddSums ==
    Len(log) >= 2 =>
        LET n == Len(log)
            a == log[n - 1]
            b == log[n]
        IN  (a.key = b.key /\ has(dict_of_flags, b.key)) =>
              /\ (a.op = "set" /\ b.op = "set")
                    => /\ At(dict_of_flags, b.key).count = b.val
                       /\ At(dict_of_flags, b.key).isset
              /\ (/\ a.op = "add"
                  /\ b.op = "add"
                  /\ \A i \in 1..(n - 2) : ~Touches(log[i], b.key))
                    => /\ At(dict_of_flags, b.key).count = a.val + b.val
                       /\ At(dict_of_flags, b.key).isset

C9_Witness ==
    /\ Len(log) = 2
    /\ log[1] = Call("set", "hit", <<>>, 2, FALSE)
    /\ log[2] = Call("set", "hit", <<>>, 1, FALSE)
    /\ has(dict_of_flags, "hit")
    /\ At(dict_of_flags, "hit").count = 1
    /\ At(dict_of_flags, "hit").isset

(* call c names only flags that registry d does not hold *)
Undefined(d, c) ==
    \/ c.op \in {"set", "add", "is_set", "get", "integral"} /\ ~has(d, c.key)
    \/ /\ c.op \in {"any", "all"}
       /\ c.keys /= <<>>
       /\ \A i \in 1..Len(c.keys) : ~has(d, c.keys[i])

Absent(op) == IF op \in {"get", "integral"} THEN RetNone ELSE RetBool(FALSE)

(* C10: set, add, is_set, any, all, get and integral called with an        *)
(* undefined name return False (None for get and integral), define         *)
(* nothing and leave every flag as it was; all returns False as soon as    *)
(* one of its names is undefined; get of a defined flag returns a float,   *)
(* so None is not mistaken for the value 0.                                *)
C10_UndefinedName ==
    /\ [][(Len(log') = 1 /\ Undefined(dict_of_flags, log'[1]))
            => /\ dict_of_flags' = dict_of_flags
               /\ ret' = Absent(log'[1].op)]_vars
    /\ [][(/\ Len(log') = 1
           /\ log'[1].op = "all"
           /\ \E i \in 1..Len(log'[1].keys) : ~has(dict_of_flags, log'[1].keys[i]))
            => /\ dict_of_flags' = dict_of_flags
               /\ ret' = RetBool(FALSE)]_vars
    /\ []((/\ Len(log) = 1
           /\ log[1].op \in {"get", "integral"}
           /\ has(dict_of_flags, log[1].key))
            => ret.kind = "float")

C10_Witness ==
    /\ Len(log) = 1
    /\ log[1].op = "get"
    /\ log[1].key = "miss"
    /\ ~has(dict_of_flags, "miss")
    /\ has(dict_of_flags, "hit")
    /\ At(dict_of_flags, "hit").accum > 0
    /\ At(dict_of_flags, "hit").count > 0
    /\ ret = RetNone

(* C11: set(name, v) and add(name, v) return a boolean: True when name is  *)
(* defined and the write happened, False when name is undefined.           *)
C11_WriteReturnsBool ==
    (Len(log) = 1 /\ log[1].op \in {"set", "add"})
        => ret = RetBool(has(dict_of_flags, log[1].key))

UniqueKeys(d) == \A i, j \in 1..Len(d) : d[i].key = d[j].key => i = j

(* C12: after when(condition, A, B) with A /= B both A and B are defined,  *)
(* the flag that matches condition (A if true, B if false) is set with     *)
(* count 1, and the call returns condition.                                *)
C12_WhenDefinesBothSetsOne ==
    (Len(log) = 1 /\ log[1].op = "when" /\ log[1].keys[1] /= log[1].keys[2])
        => LET matching == IF log[1].cond THEN log[1].keys[1] ELSE log[1].keys[2]
           IN  /\ has(dict_of_flags, log[1].keys[1])
               /\ has(dict_of_flags, log[1].keys[2])
               /\ UniqueKeys(dict_of_flags)
               /\ At(dict_of_flags, matching).isset
               /\ At(dict_of_flags, matching).count = 1
               /\ ret = RetBool(log[1].cond)

C12_Witness ==
    /\ log = <<Call("when", "", <<"hit", "miss">>, 0, FALSE)>>
    /\ Len(dict_of_flags) = 2
    /\ dict_of_flags[1].key = "hit"
    /\ dict_of_flags[1].isset = FALSE
    /\ dict_of_flags[2].key = "miss"
    /\ dict_of_flags[2].isset
    /\ dict_of_flags[2].count = 1
    /\ ret = RetBool(FALSE)

(* the last call of the record is when(condition, A, B) with A /= B *)
WhenReturned(l) ==
    /\ l /= <<>>
    /\ l[Len(l)].op = "when"
    /\ l[Len(l)].keys[1] /= l[Len(l)].keys[2]

(* the flag of the when call c that does not match its condition *)
OtherFlag(c) == IF c.cond THEN c.keys[2] ELSE c.keys[1]

(* C13 as stated: after when(condition, A, B) returns, the flag that does  *)
(* not match condition is not set and has count 0, whatever calls were     *)
(* made earlier in the same record.                                        *)
C13_OtherNeverSet ==
    WhenReturned(log)
        => /\ At(dict_of_flags, OtherFlag(log[Len(log)])).isset = FALSE
           /\ At(dict_of_flags, OtherFlag(log[Len(log)])).count = 0

(* C13 as amended: when writes only the flag that matches condition; the   *)
(* other flag is left as the earlier calls of the record left it: as it    *)
(* was if it was defined, fresh (count 0, not set, total 0) if when had to *)
(* define it; so it has count 0 and is not set exactly when no earlier     *)
(* call of the record wrote it.                                            *)
C13_OtherUntouched ==
    [][(Len(log') = Len(log) + 1 /\ WhenReturned(log'))
        => LET other == OtherFlag(log'[Len(log')])
           IN  /\ has(dict_of_flags, other)
                    => At(dict_of_flags', other) = At(dict_of_flags, other)
               /\ ~has(dict_of_flags, other)
                    => At(dict_of_flags', other)
                         = [key |-> other, count |-> 0, isset |-> FALSE, accum |-> 0]
               /\ (\A i \in 1..Len(log) : ~Touches(log[i], other))
                    => /\ At(dict_of_flags', other).isset = FALSE
                       /\ At(dict_of_flags', other).count = 0]_vars

C13_Witness ==
    /\ log = <<Call("when", "", <<"hit", "miss">>, 0, FALSE),
               Call("when", "", <<"hit", "miss">>, 0, TRUE)>>
    /\ At(dict_of_flags, "hit").isset
    /\ At(dict_of_flags, "miss").isset
    /\ At(dict_of_flags, "miss").count = 1

(* C14: define(name) on an unused name appends exactly one flag with count *)
(* 0, not set, total 0; define(name) on a registered name changes nothing: *)
(* not the number of flags, not that flag, not any other flag; names stay  *)
(* unique.                                                                 *)
C14_DefineIdempotent ==
    /\ [][(Len(log') = 1 /\ log'[1].op = "define")
            => IF \E i \in 1..Len(dict_of_flags) :
                     dict_of_flags[i].key = log'[1].key
               THEN dict_of_flags' = dict_of_flags
               ELSE dict_of_flags'
                      = dict_of_flags \o <<[key |-> log'[1].key, count |-> 0,
                                            isset |-> FALSE, accum |-> 0]>>]_vars
    /\ [](UniqueKeys(dict_of_flags))

C14_Witness ==
    /\ log = <<Call("define", "hit", <<>>, 0, FALSE)>>
    /\ Len(dict_of_flags) = 2
    /\ At(dict_of_flags, "hit").count > 0
    /\ At(dict_of_flags, "hit").isset
    /\ At(dict_of_flags, "hit").accum > 0

(* the name key-k *)
Suffixed(key, k) == key \o "-" \o ToString(k)

(* C15: registering a name that is already registered, with automatic      *)
(* disambiguation (define, or the constructor that calls __newkey),        *)
(* registers and returns key-k for the smallest k >= 2 whose name is       *)
(* unused, so that the number of flags grows by one with every call.       *)
C15_DefineUnique ==
    [][(/\ Len(log') = 1
        /\ log'[1].op \in {"define", "EventFlags"}
        /\ has(dict_of_flags, log'[1].key))
        => \E k \in 2..(Len(dict_of_flags) + 2) :
              /\ ~has(dict_of_flags, Suffixed(log'[1].key, k))
              /\ \A j \in 2..(k - 1) : has(dict_of_flags, Suffixed(log'[1].key, j))
              /\ has(dict_of_flags', Suffixed(log'[1].key, k))
              /\ Len(dict_of_flags') = Len(dict_of_flags) + 1
              /\ log'[1].op = "EventFlags"
                    => ret' = RetFlag(Suffixed(log'[1].key, k))]_vars

(* C16: accumulate, called in any state, adds to every flag's total        *)
(* exactly the value the flag held before the call and leaves every flag   *)
(* with count 0 and not set; the registered names are the same.            *)
C16_Accumulate ==
    [][(Len(log') = 1 /\ log'[1].op = "accumulate")
        => /\ Len(dict_of_flags') = Len(dict_of_flags)
           /\ \A i \in 1..Len(dict_of_flags) :
                 /\ dict_of_flags'[i].key = dict_of_flags[i].key
                 /\ dict_of_flags'[i].accum
                      = dict_of_flags[i].accum + dict_of_flags[i].count
                 /\ dict_of_flags'[i].count = 0
                 /\ dict_of_flags'[i].isset = FALSE]_vars

C16_Witness ==
    /\ log = <<Call("accumulate", "", <<>>, 0, FALSE)>>
    /\ Len(dict_of_flags) = 2
    /\ At(dict_of_flags, "hit").accum = 3
    /\ At(dict_of_flags, "miss").accum = 1
    /\ AllClear(dict_of_flags)

(* a step that calls accumulate right after a call of accumulate *)
SecondAccumulate ==
    /\ log /= <<>>
    /\ log[Len(log)].op = "accumulate"
    /\ log' = Append(log, Call("accumulate", "", <<>>, 0, FALSE))

(* C17 as stated: accumulate called twice in a row double-counts: the      *)
(* value a flag held before the first call is added to its total a second  *)
(* time by the second call.                                                *)
C17_DoubleCounts ==
    [][SecondAccumulate
        => \A i \in 1..Len(dict_of_flags) :
              dict_of_flags'[i].accum
                = dict_of_flags[i].accum + pending[i].count]_vars

(* C17 as amended: the first call leaves every flag with count 0, so a     *)
(* second call in a row adds nothing: every total stays what the first     *)
(* call made it, the old total plus the value once.                        *)
C17_SecondAddsNothing ==
    /\ [][SecondAccumulate
            => /\ Accums(dict_of_flags') = Accums(dict_of_flags)
               /\ AllClear(dict_of_flags')]_vars
    /\ []((log /= <<>> /\ log[Len(log)].op = "accumulate")
            => AllClear(dict_of_flags))

C17_Witness ==
    /\ log = <<Call("when", "", <<"hit", "miss">>, 0, TRUE),
               Call("accumulate", "", <<>>, 0, FALSE),
               Call("accumulate", "", <<>>, 0, FALSE)>>
    /\ At(dict_of_flags, "hit").accum = 1
    /\ At(dict_of_flags, "miss").accum = 0
    /\ pending = <<[key |-> "hit", count |-> 0], [key |-> "miss", count |-> 0]>>

(* C18: reset sets every flag's total and count to 0 and its set mark to   *)
(* false and keeps the registered names, their number and the order in     *)
(* which output lists them.                                                *)
C18_Reset ==
    [][(Len(log') = 1 /\ log'[1].op = "reset")
        => /\ ndef(dict_of_flags') = ndef(dict_of_flags)
           /\ \A i \in 1..Len(dict_of_flags) :
                 /\ dict_of_flags'[i]
                      = [key |-> dict_of_flags[i].key, count |-> 0,
                         isset |-> FALSE, accum |-> 0]
                 /\ output(dict_of_flags')[i].key = output(dict_of_flags)[i].key
                 /\ output(dict_of_flags')[i].accum = 0]_vars

C18_Witness ==
    /\ log = <<Call("reset", "", <<>>, 0, FALSE)>>
    /\ Len(dict_of_flags) = 2
    /\ dict_of_flags[1].key = "miss"
    /\ dict_of_flags[2].key = "hit"
    /\ \A i \in 1..2 : dict_of_flags[i].accum = 0 /\ dict_of_flags[i].count = 0

(* a step of run_analysis that calls _print_progress(entry) in _run_loop *)
ProgressDue == pc = "loop" /\ entry \in entry_list /\ pc' /= "loop"

(* what the step printed *)
Emitted == SubSeq(printed', Len(printed) + 1, Len(printed'))

(* C19: in the loop a progress signal is emitted for index i exactly when  *)
(* i mod print_frequency = 0 or i = nentries - 1; and when                 *)
(* user_event_routine returns QuitLoop (through quit_loop), one more       *)
(* signal is emitted as for index nentries - 1 before user_after_loop is   *)
(* called.                                                                 *)
C19_ProgressSignals ==
    [][/\ ProgressDue
          => /\ (entry % print_frequency = 0 \/ entry = nentries - 1)
                  <=> Emitted /= <<>>
             /\ \A i \in 1..Len(Emitted) : Emitted[i].entry = entry
       /\ (pc = "event" /\ pc' /= "event" /\ helper' = "quit_loop")
          => /\ Emitted /= <<>>
             /\ \A i \in 1..Len(Emitted) : Emitted[i].entry = nentries - 1
             /\ pc' = "after"
             /\ hooks'.after = hooks.after + 1]_vars

(* C20: a progress computation that finds the elapsed time 0, also at      *)
(* index 0, prints a line with a remaining time of 0 and the loop goes on  *)
(* to user_event_routine for that index; the run never fails there.        *)
C20_ZeroElapsed ==
    [][(ProgressDue /\ entry % print_frequency = 0 /\ dt' = 0)
        => /\ pc' = "event"
           /\ called' = Append(called, entry)
           /\ Emitted /= <<>>
           /\ Emitted[1].kind = "line"
           /\ Emitted[1].rest_num = 0]_vars

(* the last entry a "hitmiss" run processes *)
LastEntry == IF routine.quit < nentries THEN routine.quit ELSE nentries - 1

(* the indexes 0 .. n - 1 in ascending order *)
UpTo(n) == [i \in 1..n |-> i - 1]

(* C21: skip_event and ok_event are the same to the loop and to the        *)
(* totals.  A "hitmiss" run that has ended shows indexes, hook counts and  *)
(* totals that depend on nentries, k and quit only, not on the set of      *)
(* entries that returned through skip_event instead of ok_event; and with  *)
(* any user code, a return through either of the two goes on to the next   *)
(* entry, prints nothing, calls no hook, and adds the values the flags     *)
(* held to their totals.                                                   *)
C21_SkipIsOk ==
    /\ []((/\ routine.kind = "hitmiss"
           /\ pc \in {"done", "error"}
           /\ hooks.setup = OKFunc)
            => /\ called = UpTo(LastEntry + 1)
               /\ loaded = UpTo(LastEntry + 1)
               /\ hooks.before = 1
               /\ hooks.after = 1
               /\ nentries >= 1
                    => /\ AccumOf(dict_of_flags, "hit") = Hits(LastEntry)
                       /\ AccumOf(dict_of_flags, "miss")
                            = (LastEntry + 1) - Hits(LastEntry))
    /\ [][(/\ pc = "event"
           /\ pc' /= "event"
           /\ helper' \in {"ok_event", "skip_event"})
            => /\ pc' = "loop"
               /\ entry' = entry + 1
               /\ called' = called
               /\ loaded' = loaded
               /\ printed' = printed
               /\ hooks' = hooks
               /\ Added(dict_of_flags, pending', dict_of_flags')]_vars

C21_Witness ==
    /\ HitMissDone
    /\ nentries = 3
    /\ routine.skip = {0, 2}
    /\ routine.k = 2
    /\ routine.quit >= nentries
    /\ called = <<0, 1, 2>>
    /\ status = SkipEvent
    /\ Total(LastReport, "hit") = 1
    /\ Total(LastReport, "miss") = 2

(* registry e still holds every flag of registry d, at its place and with  *)
(* its total, and any flag it holds besides has the total 0                *)
Keeps(d, e) ==
    /\ Len(e) >= Len(d)
    /\ \A i \in 1..Len(d) : e[i].key = d[i].key /\ e[i].accum = d[i].accum
    /\ \A i \in (Len(d) + 1)..Len(e) : e[i].accum = 0

(* a step of the script that calls EventFlags.reset() *)
ResetCalled == pc = "idle" /\ pc' = "idle" /\ runs' = runs

(* C22: a total is zeroed by reset only.  Over runs that follow one        *)
(* another in one process: every step keeps the registered flags; a step   *)
(* in which user_event_routine returns adds the values held to the totals, *)
(* a reset zeroes them, and every other step (constructing a module,       *)
(* starting a run, clear, the hooks' returns, the report) leaves every     *)
(* total as it was; define, set, add, when and clear applied to any        *)
(* registry reached leave its totals as they are; so a second run that     *)
(* ends without a reset before it reports every flag of the registry, with *)
(* totals that are at least what its own records added.                    *)
C22_TotalsPersist ==
    /\ [][/\ Len(dict_of_flags') >= Len(dict_of_flags)
          /\ \A i \in 1..Len(dict_of_flags) :
                dict_of_flags'[i].key = dict_of_flags[i].key
          /\ IF pc = "event" /\ pc' /= "event"
             THEN Added(dict_of_flags, pending', dict_of_flags')
             ELSE IF ResetCalled
             THEN \A i \in 1..Len(dict_of_flags') : dict_of_flags'[i].accum = 0
             ELSE Accums(dict_of_flags') = Accums(dict_of_flags)]_vars
    /\ [](/\ \A c \in Writes : Keeps(dict_of_flags, Apply(dict_of_flags, c))
          /\ Keeps(dict_of_flags, clear(dict_of_flags)))
    /\ []((pc = "done" /\ runs >= 2)
            => /\ Len(LastReport) = Len(dict_of_flags)
               /\ \A i \in 1..Len(dict_of_flags) :
                     /\ LastReport[i].key = dict_of_flags[i].key
                     /\ LastReport[i].accum = dict_of_flags[i].accum
               /\ (log = <<>> /\ nentries >= 1 /\ hooks.setup = OKFunc)
                    => /\ Total(LastReport, "hit") >= Hits(LastEntry)
                       /\ Total(LastReport, "miss")
                            >= (LastEntry + 1) - Hits(LastEntry))

C22_Witness ==
    /\ pc = "done"
    /\ runs = 2
    /\ log = <<>>
    /\ nentries = 1
    /\ routine.k = 0
    /\ Total(LastReport, "hit") = 2
    /\ Total(LastReport, "miss") = 2

====
